---------------------------- MODULE Spec2Model ----------------------------
(***************************************************************************)
(* Translation pipeline of LenkoStudio: the identifier extractor and the   *)
(* reconciler of scripts/sync_translations.py, and the page generator of   *)
(* scripts/generate_i18n_all.py.                                           *)
(*                                                                         *)
(* Text is a sequence of one-character strings, an identifier is text, a   *)
(* document is the sequence of parser events html.parser delivers for it.  *)
(* A Python dict is an insertion-ordered record [keys, vals].              *)
(***************************************************************************)
EXTENDS Integers, Sequences, FiniteSets, TLC

(***************************************************************************)
(* Text                                                                    *)
(***************************************************************************)

\* The characters Python's \s and str.strip() treat as whitespace (those the
\* model's texts use).
Whitespace == {" ", "\n", "\r", "\t"}

EmptyText == << >>

RECURSIVE Concat(_)
\* ''.join(items)
Concat(items) ==
    IF items = << >> THEN EmptyText ELSE Head(items) \o Concat(Tail(items))

RECURSIVE JoinWith(_, _)
\* sep.join(items)
JoinWith(sep, items) ==
    IF items = << >> THEN EmptyText
    ELSE IF Len(items) = 1 THEN Head(items)
    ELSE Head(items) \o sep \o JoinWith(sep, Tail(items))

RECURSIVE LStrip(_)
LStrip(t) ==
    IF t # << >> /\ Head(t) \in Whitespace THEN LStrip(Tail(t)) ELSE t

RECURSIVE RStrip(_)
RStrip(t) ==
    IF t # << >> /\ t[Len(t)] \in Whitespace
    THEN RStrip(SubSeq(t, 1, Len(t) - 1)) ELSE t

\* str.strip()
Strip(t) == RStrip(LStrip(t))

RECURSIVE CollapseWhitespace(_)
\* re.sub(r'\s+', ' ', t): every maximal whitespace run becomes one space
CollapseWhitespace(t) ==
    IF t = << >> THEN << >>
    ELSE IF Head(t) \in Whitespace
         THEN <<" ">> \o CollapseWhitespace(LStrip(t))
         ELSE <<Head(t)>> \o CollapseWhitespace(Tail(t))

\* re.sub(r'\s+', ' ', content).strip()
NormalizeContent(t) == Strip(CollapseWhitespace(t))

\* Python truthiness of a str
Truthy(t) == t # EmptyText

(***************************************************************************)
(* Insertion-ordered dict                                                  *)
(***************************************************************************)

EmptyDict == [keys |-> << >>, vals |-> << >>]

\* position of k in the sequence s (keys are distinct), 0 when absent
IndexOf(s, k) ==
    IF \E i \in 1..Len(s) : s[i] = k
    THEN CHOOSE i \in 1..Len(s) : s[i] = k
    ELSE 0

DictHas(d, k) == IndexOf(d.keys, k) # 0

DictGet(d, k) == d.vals[IndexOf(d.keys, k)]

\* d[k] = v: a new key goes last, an existing key keeps its position
DictSet(d, k, v) ==
    IF DictHas(d, k)
    THEN [d EXCEPT !.vals[IndexOf(d.keys, k)] = v]
    ELSE [keys |-> Append(d.keys, k), vals |-> Append(d.vals, v)]

(***************************************************************************)
(* IDExtractor                                                             *)
(***************************************************************************)

\* Parser events, which are also the lexical units of the raw text the
\* generator rewrites. hasId says whether the tag has an id attribute; attrs
\* are the tag's other attributes, in the order they are written.
StartTag(tag, id) ==
    [kind |-> "start", tag |-> tag, hasId |-> TRUE, id |-> id, data |-> EmptyText,
     attrs |-> << >>]
PlainStartTag(tag) ==
    [kind |-> "start", tag |-> tag, hasId |-> FALSE, id |-> EmptyText,
     data |-> EmptyText, attrs |-> << >>]
EndTag(tag) ==
    [kind |-> "end", tag |-> tag, hasId |-> FALSE, id |-> EmptyText,
     data |-> EmptyText, attrs |-> << >>]
StartEndTag(tag, id) ==
    [kind |-> "startend", tag |-> tag, hasId |-> TRUE, id |-> id,
     data |-> EmptyText, attrs |-> << >>]
Data(text) ==
    [kind |-> "data", tag |-> "", hasId |-> FALSE, id |-> EmptyText, data |-> text,
     attrs |-> << >>]
\* <!--text-->
Comment(text) ==
    [kind |-> "comment", tag |-> "", hasId |-> FALSE, id |-> EmptyText,
     data |-> text, attrs |-> << >>]
\* name="value"
Attr(name, value) == [name |-> name, value |-> value]
\* <tag attrs> (kind "start") or <tag attrs /> (kind "startend"), without id
TagWith(kind, tag, attrs) ==
    [kind |-> kind, tag |-> tag, hasId |-> FALSE, id |-> EmptyText,
     data |-> EmptyText, attrs |-> attrs]

\* An entry of IDExtractor.elements: the open list of fragments, or the str
ListContent(items) == [isList |-> TRUE, items |-> items, str |-> EmptyText]
StrContent(text) == [isList |-> FALSE, items |-> << >>, str |-> text]

\* None is << >>, a value v is <<v>>
None == << >>
Some(v) == <<v>>

\* IDExtractor.__init__; failed records an exception raised by a handler
IDExtractor ==
    [elements |-> EmptyDict, tags |-> EmptyDict, current_id |-> None,
     current_tag |-> None, capture_content |-> FALSE, failed |-> FALSE]

\* Mutant: an identifier whose capture is open keeps its fragments
handle_starttagKeepingFragments(self, tag, hasId, id) ==
    IF hasId
    THEN [self EXCEPT !.current_id = Some(id),
                      !.current_tag = Some(tag),
                      !.capture_content = TRUE,
                      !.elements =
                          IF DictHas(self.elements, id) /\ DictGet(self.elements, id).isList
                          THEN self.elements
                          ELSE DictSet(self.elements, id, ListContent(<< >>)),
                      !.tags = DictSet(self.tags, id, tag)]
    ELSE self

handle_starttag(self, tag, hasId, id) ==
    IF hasId
    THEN [self EXCEPT !.current_id = Some(id),
                      !.current_tag = Some(tag),
                      !.capture_content = TRUE,
                      !.elements = DictSet(self.elements, id, ListContent(<< >>)),
                      !.tags = DictSet(self.tags, id, tag)]
    ELSE self

\* ''.join(x) for x the list of fragments, or the str itself
JoinContent(c) == IF c.isList THEN Concat(c.items) ELSE c.str

handle_endtag(self, tag) ==
    IF self.capture_content /\ Some(tag) = self.current_tag
    THEN LET id == self.current_id[1]
             content == NormalizeContent(JoinContent(DictGet(self.elements, id)))
         IN [self EXCEPT !.elements = DictSet(self.elements, id, StrContent(content)),
                         !.capture_content = FALSE,
                         !.current_id = None,
                         !.current_tag = None]
    ELSE self

\* elements[current_id].append(data): a str has no append (AttributeError)
handle_data(self, data) ==
    IF self.capture_content /\ self.current_id # None /\ Truthy(self.current_id[1])
    THEN LET id == self.current_id[1]
             c == DictGet(self.elements, id)
         IN IF c.isList
            THEN [self EXCEPT !.elements =
                     DictSet(self.elements, id, ListContent(Append(c.items, data)))]
            ELSE [self EXCEPT !.failed = TRUE]
    ELSE self

handle_startendtag(self, tag, hasId, id) ==
    IF hasId
    THEN [self EXCEPT !.elements = DictSet(self.elements, id, StrContent(EmptyText)),
                      !.tags = DictSet(self.tags, id, tag)]
    ELSE self

\* One parser event; after an exception nothing more is handled. IDExtractor
\* does not override handle_comment.
Handle(self, ev) ==
    IF self.failed THEN self
    ELSE CASE ev.kind = "start" -> handle_starttag(self, ev.tag, ev.hasId, ev.id)
           [] ev.kind = "end" -> handle_endtag(self, ev.tag)
           [] ev.kind = "data" -> handle_data(self, ev.data)
           [] ev.kind = "startend" -> handle_startendtag(self, ev.tag, ev.hasId, ev.id)
           [] ev.kind = "comment" -> self

RECURSIVE FeedFrom(_, _)
FeedFrom(self, doc) ==
    IF doc = << >> \/ self.failed THEN self
    ELSE FeedFrom(Handle(self, Head(doc)), Tail(doc))

\* extractor = IDExtractor(); extractor.feed(text)
Feed(doc) == FeedFrom(IDExtractor, doc)

(***************************************************************************)
(* The file tree                                                           *)
(***************************************************************************)

\* pages of scan_html_files and of the generator's main
pages == <<"index", "about", "contact", "portfolio", "project">>

languages == <<"en", "es">>

\* Path(f'{page}.html') is <<"en", page>>, Path(f'es/{page}.html') is <<"es", page>>
Paths == {<<languages[l], pages[p]>> : l \in 1..Len(languages), p \in 1..Len(pages)}

AbsentFile == [exists |-> FALSE, doc |-> << >>]
FileOf(doc) == [exists |-> TRUE, doc |-> doc]

\* i18n/translations.csv: absent, or its data rows in file order
AbsentStore == [exists |-> FALSE, rows |-> << >>]
StoreOf(rows) == [exists |-> TRUE, rows |-> rows]

\* Mutant: the address of the page's Spanish version
get_page_addressSpanish(page_name) == <<"/", "es", "/", page_name, ".html">>

get_page_address(page_name) == <<"/", page_name, ".html">>

Row(page, tag, id, en, es) ==
    [page |-> page, address |-> get_page_address(page), status |-> "active",
     tag |-> tag, id |-> id, en |-> en, es |-> es]

(***************************************************************************)
(* scan_html_files                                                         *)
(***************************************************************************)

\* page_ids[page][element_id]: the 'en' and 'es' keys that are set
NoContentData ==
    [hasEn |-> FALSE, en |-> StrContent(EmptyText),
     hasEs |-> FALSE, es |-> StrContent(EmptyText)]

SetLang(content_data, lang, content) ==
    IF lang = "en"
    THEN [content_data EXCEPT !.hasEn = TRUE, !.en = content]
    ELSE [content_data EXCEPT !.hasEs = TRUE, !.es = content]

RECURSIVE RecordElements(_, _, _, _)
\* for element_id, content in extractor.elements.items(): ... (from item k on)
\* acc = [ids, tags]: page_ids[page] and tag_info[page]
RecordElements(acc, extractor, lang, k) ==
    IF k > Len(extractor.elements.keys) THEN acc
    ELSE LET element_id == extractor.elements.keys[k]
             content == extractor.elements.vals[k]
             old == IF DictHas(acc.ids, element_id)
                    THEN DictGet(acc.ids, element_id) ELSE NoContentData
             tag == IF DictHas(extractor.tags, element_id)
                    THEN DictGet(extractor.tags, element_id) ELSE "unknown"
             tags == IF lang = "en" \/ ~DictHas(acc.tags, element_id)
                     THEN DictSet(acc.tags, element_id, tag) ELSE acc.tags
         IN RecordElements(
                [ids |-> DictSet(acc.ids, element_id, SetLang(old, lang, content)),
                 tags |-> tags],
                extractor, lang, k + 1)

\* One language version of one page; an exception of feed() ends the scan
ScanFile(acc, tree, lang, page) ==
    IF acc.failed \/ ~tree[<<lang, page>>].exists THEN acc
    ELSE LET extractor == Feed(tree[<<lang, page>>].doc)
         IN IF extractor.failed THEN [acc EXCEPT !.failed = TRUE]
            ELSE LET r == RecordElements([ids |-> acc.ids, tags |-> acc.tags],
                                         extractor, lang, 1)
                 IN [acc EXCEPT !.ids = r.ids, !.tags = r.tags]

RECURSIVE ScanFrom(_, _, _)
ScanFrom(acc, tree, p) ==
    IF p > Len(pages) \/ acc.failed THEN acc
    ELSE LET page == pages[p]
             start == [failed |-> FALSE, ids |-> EmptyDict, tags |-> EmptyDict]
             scanned == ScanFile(ScanFile(start, tree, "en", page), tree, "es", page)
         IN ScanFrom([failed |-> scanned.failed,
                      page_ids |-> DictSet(acc.page_ids, page, scanned.ids),
                      tag_info |-> DictSet(acc.tag_info, page, scanned.tags)],
                     tree, p + 1)

\* [failed, page_ids, tag_info]
scan_html_files(tree) ==
    ScanFrom([failed |-> FALSE, page_ids |-> EmptyDict, tag_info |-> EmptyDict],
             tree, 1)

(***************************************************************************)
(* load_existing_csv                                                       *)
(***************************************************************************)

RECURSIVE TranslateNewlines(_)
\* open(csv_file, 'r') reads with universal newlines: inside a quoted field,
\* too, '\r\n' and '\r' arrive as '\n'
TranslateNewlines(t) ==
    IF t = << >> THEN << >>
    ELSE IF Head(t) = "\r"
         THEN <<"\n">> \o TranslateNewlines(
                  IF Len(t) > 1 /\ t[2] = "\n" THEN Tail(Tail(t)) ELSE Tail(t))
         ELSE <<Head(t)>> \o TranslateNewlines(Tail(t))

\* A row as csv.DictReader returns it
ReadRow(row) ==
    [row EXCEPT !.id = TranslateNewlines(row.id),
                !.en = TranslateNewlines(row.en),
                !.es = TranslateNewlines(row.es)]

RECURSIVE LoadRows(_, _)
LoadRows(existing, rows) ==
    IF rows = << >> THEN existing
    ELSE LET row == ReadRow(Head(rows))
         IN LoadRows(IF Truthy(row.id) THEN DictSet(existing, row.id, row)
                     ELSE existing,
                     Tail(rows))

load_existing_csv(csv) ==
    IF ~csv.exists THEN EmptyDict ELSE LoadRows(EmptyDict, csv.rows)

(***************************************************************************)
(* create_updated_csv                                                      *)
(***************************************************************************)

RECURSIVE TruthyItems(_)
TruthyItems(items) ==
    IF items = << >> THEN << >>
    ELSE IF Truthy(Head(items)) THEN <<Head(items)>> \o TruthyItems(Tail(items))
    ELSE TruthyItems(Tail(items))

\* if isinstance(content, list): ' '.join(str(item) for item in content if item)
ContentToString(content) ==
    IF content.isList THEN JoinWith(<<" ">>, TruthyItems(content.items))
    ELSE content.str

\* Mutant: the Spanish scan stands in for a missing English one
ScannedEnOrEs(content_data) ==
    IF content_data.hasEn THEN ContentToString(content_data.en)
    ELSE IF content_data.hasEs THEN ContentToString(content_data.es)
    ELSE EmptyText

\* content_data.get('en', '')
ScannedEn(content_data) ==
    IF content_data.hasEn THEN ContentToString(content_data.en) ELSE EmptyText

\* content_data.get('es', '')
ScannedEs(content_data) ==
    IF content_data.hasEs THEN ContentToString(content_data.es) ELSE EmptyText

\* Mutant: the processed_ids check is lost
AlreadyProcessedNever(processed_ids, element_id) == FALSE

\* if element_id in processed_ids: continue
AlreadyProcessed(processed_ids, element_id) == element_id \in processed_ids

\* Mutant: only the empty string is skipped, whitespace is kept
NoMeaningfulContentEmptyOnly(en_content) == ~Truthy(en_content)

\* if not en_content or not en_content.strip(): continue
NoMeaningfulContent(en_content) ==
    ~Truthy(en_content) \/ ~Truthy(Strip(en_content))

\* Priority for Spanish: existing CSV > scanned Spanish HTML
ChooseEs(existing_data, element_id, es_content_from_html) ==
    IF DictHas(existing_data, element_id)
       /\ Truthy(DictGet(existing_data, element_id).es)
    THEN DictGet(existing_data, element_id).es
    ELSE es_content_from_html

\* Mutant: the page being scanned, whatever the Store says
ChoosePageScanned(existing_data, element_id, page) == page

\* Determine page from existing data, else the page being scanned
ChoosePage(existing_data, element_id, page) ==
    IF DictHas(existing_data, element_id)
       /\ DictGet(existing_data, element_id).page # ""
    THEN DictGet(existing_data, element_id).page
    ELSE page

\* tag_info.get(page, {}).get(element_id, 'unknown')
TagType(tag_info, page, element_id) ==
    IF DictHas(tag_info, page) /\ DictHas(DictGet(tag_info, page), element_id)
    THEN DictGet(DictGet(tag_info, page), element_id) ELSE "unknown"

RECURSIVE CreateFromIds(_, _, _, _, _, _)
\* for element_id, content_data in ids_data.items(): ... (from item k on)
\* acc = [rows, processed_ids]
CreateFromIds(acc, page, ids_data, tag_info, existing_data, k) ==
    IF k > Len(ids_data.keys) THEN acc
    ELSE LET element_id == ids_data.keys[k]
             content_data == ids_data.vals[k]
             en_content == ScannedEn(content_data)
             marked == [acc EXCEPT !.processed_ids = @ \cup {element_id}]
             best_page == ChoosePage(existing_data, element_id, page)
             row == [page |-> best_page,
                     address |-> get_page_address(best_page),
                     status |-> "active",
                     tag |-> TagType(tag_info, page, element_id),
                     id |-> element_id,
                     en |-> en_content,
                     es |-> ChooseEs(existing_data, element_id,
                                     ScannedEs(content_data))]
             next == IF AlreadyProcessed(acc.processed_ids, element_id) THEN acc
                     ELSE IF NoMeaningfulContent(en_content) THEN marked
                     ELSE [marked EXCEPT !.rows = Append(@, row)]
         IN CreateFromIds(next, page, ids_data, tag_info, existing_data, k + 1)

RECURSIVE CreateFromPages(_, _, _, _, _)
\* for page, ids_data in page_ids.items(): ... (from item p on)
CreateFromPages(acc, page_ids, tag_info, existing_data, p) ==
    IF p > Len(page_ids.keys) THEN acc
    ELSE CreateFromPages(
             CreateFromIds(acc, page_ids.keys[p], page_ids.vals[p], tag_info,
                           existing_data, 1),
             page_ids, tag_info, existing_data, p + 1)

create_updated_csv(page_ids, tag_info, existing_data) ==
    CreateFromPages([rows |-> << >>, processed_ids |-> {}],
                    page_ids, tag_info, existing_data, 1).rows

(***************************************************************************)
(* write_csv                                                               *)
(***************************************************************************)

\* ch in element_id
Contains(element_id, ch) == \E i \in 1..Len(element_id) : element_id[i] = ch

\* Mutant: the underscore is rewarded instead of penalized
id_scoreRewardUnderscore(element_id) ==
    (IF Contains(element_id, "_") THEN 1000 ELSE 0)
    + (IF Contains(element_id, "-") THEN 100 ELSE 0)
    + (IF ~(Contains(element_id, "-") \/ Contains(element_id, "_")) THEN -50 ELSE 0)
    - Len(element_id)

id_score(element_id) ==
    (IF Contains(element_id, "_") THEN -1000 ELSE 0)
    + (IF Contains(element_id, "-") THEN 100 ELSE 0)
    + (IF ~(Contains(element_id, "-") \/ Contains(element_id, "_")) THEN -50 ELSE 0)
    - Len(element_id)

\* if current_score > existing_score: replace existing
CurrentIsBetter(element_id, existing_id) == id_score(element_id) > id_score(existing_id)

RECURSIVE DropId(_, _)
\* [r for r in deduplicated_rows if r['id'] != existing_id]
DropId(rows, existing_id) ==
    IF rows = << >> THEN << >>
    ELSE IF Head(rows).id # existing_id
         THEN <<Head(rows)>> \o DropId(Tail(rows), existing_id)
         ELSE DropId(Tail(rows), existing_id)

RECURSIVE Deduplicate(_, _)
\* for row in rows: ...   acc = [seen_text, deduplicated_rows]
Deduplicate(acc, rows) ==
    IF rows = << >> THEN acc
    ELSE LET row == Head(rows)
             next ==
                 IF DictHas(acc.seen_text, row.en)
                 THEN LET existing_id == DictGet(acc.seen_text, row.en).id
                      IN IF CurrentIsBetter(row.id, existing_id)
                         THEN [seen_text |-> DictSet(acc.seen_text, row.en, row),
                               deduplicated_rows |->
                                   Append(DropId(acc.deduplicated_rows, existing_id), row)]
                         ELSE acc
                 ELSE [seen_text |-> DictSet(acc.seen_text, row.en, row),
                       deduplicated_rows |-> Append(acc.deduplicated_rows, row)]
         IN Deduplicate(next, Tail(rows))

\* The rows written to output_file
write_csv(rows) ==
    Deduplicate([seen_text |-> EmptyDict, deduplicated_rows |-> << >>], rows)
        .deduplicated_rows

(***************************************************************************)
(* generate_i18n_all: loading                                              *)
(***************************************************************************)

RECURSIVE LoadTranslations(_, _)
\* for row in reader: skip deleted entries, else
\* translations['en'][id] = row['en']; translations['es'][id] = row['es']
LoadTranslations(translations, rows) ==
    IF rows = << >> THEN translations
    ELSE LET row == ReadRow(Head(rows))
         IN LoadTranslations(
                IF row.status = "deleted" THEN translations
                ELSE [en |-> DictSet(translations.en, row.id, row.en),
                      es |-> DictSet(translations.es, row.id, row.es)],
                Tail(rows))

\* [raised, translations]: FileNotFoundError when the CSV is absent
load_translations_csv(csv) ==
    IF ~csv.exists
    THEN [raised |-> TRUE, translations |-> [en |-> EmptyDict, es |-> EmptyDict]]
    ELSE [raised |-> FALSE,
          translations |-> LoadTranslations([en |-> EmptyDict, es |-> EmptyDict],
                                            csv.rows)]

\* The keys of i18n/{lang}.json that translate_html_attributes reads
MetaKeys ==
    {<<"site", "title">>, <<"about", "title">>, <<"contact", "title">>,
     <<"portfolio", "title">>, <<"meta", "project_title">>,
     <<"meta", "description">>, <<"meta", "about_description">>,
     <<"meta", "contact_description">>, <<"meta", "portfolio_description">>}

\* i18n/{lang}.json: absent, or the keys it holds and the title of the site
Lenko == <<"L", "e", "n", "k", "o">>
AbsentMeta == [exists |-> FALSE, keys |-> {}, site_title |-> EmptyText]
MetaTitled(keys, site_title) ==
    [exists |-> TRUE, keys |-> keys, site_title |-> site_title]
MetaOf(keys) == MetaTitled(keys, Lenko)

\* load_translations(lang) raises FileNotFoundError when the file is absent
load_translations_raises(json_file) == ~json_file.exists

(***************************************************************************)
(* generate_i18n_all: generate_page                                        *)
(***************************************************************************)

\* t[key[1]][key[2]] for t the table of i18n/{lang}.json
MetaValue(t, lang, key) ==
    IF key = <<"site", "title">> THEN t.site_title
    ELSE <<lang, ":", key[1], ".", key[2]>>

StartsWith(t, prefix) ==
    Len(t) >= Len(prefix) /\ SubSeq(t, 1, Len(prefix)) = prefix

AllWhitespace(t) == \A i \in 1..Len(t) : t[i] \in Whitespace

RECURSIVE MergeData(_)
\* Raw text has no boundary inside a run of text: adjacent text nodes are one
MergeData(html) ==
    IF Len(html) < 2 THEN html
    ELSE IF html[1].kind = "data" /\ html[2].kind = "data"
         THEN MergeData(<<Data(html[1].data \o html[2].data)>> \o Tail(Tail(html)))
         ELSE <<html[1]>> \o MergeData(Tail(html))

\* An opening tag <tag ...> or <tag ... />
IsOpenTag(ev, tag) == ev.kind \in {"start", "startend"} /\ ev.tag = tag

\* <html lang="en"> becomes <html lang="{lang}">
SetHtmlLang(html, lang) ==
    [k \in 1..Len(html) |->
        IF /\ html[k].kind = "start" /\ html[k].tag = "html" /\ ~html[k].hasId
           /\ html[k].attrs = <<Attr("lang", <<"en">>)>>
        THEN [html[k] EXCEPT !.attrs = <<Attr("lang", <<lang>>)>>]
        ELSE html[k]]

\* title_map.get(page_name, t['site']['title']); the dash of the project
\* title is written "-"
TitleOf(t, lang, page_name) ==
    CASE page_name = "about" -> MetaValue(t, lang, <<"about", "title">>)
      [] page_name = "contact" -> MetaValue(t, lang, <<"contact", "title">>)
      [] page_name = "portfolio" -> MetaValue(t, lang, <<"portfolio", "title">>)
      [] page_name = "project" ->
             MetaValue(t, lang, <<"site", "title">>) \o <<" ", "-", " ">>
             \o MetaValue(t, lang, <<"meta", "project_title">>)
      [] OTHER -> MetaValue(t, lang, <<"site", "title">>)

\* desc_map.get(page_name, t['meta']['description'])
DescriptionOf(t, lang, page_name) ==
    CASE page_name = "about" -> MetaValue(t, lang, <<"meta", "about_description">>)
      [] page_name = "contact" -> MetaValue(t, lang, <<"meta", "contact_description">>)
      [] page_name = "portfolio" ->
             MetaValue(t, lang, <<"meta", "portfolio_description">>)
      [] OTHER -> MetaValue(t, lang, <<"meta", "description">>)

\* Position of the first </title> after position k, 0 when there is none
TitleEnd(html, k) ==
    LET ends == {j \in (k + 1)..Len(html) :
                    html[j].kind = "end" /\ html[j].tag = "title"}
    IN IF ends = {} THEN 0 ELSE CHOOSE j \in ends : \A i \in ends : j <= i

RECURSIVE SetTitle(_, _, _)
\* <title>.*?</title> becomes <title>{title}</title> (from position k on)
SetTitle(html, title, k) ==
    IF k > Len(html) THEN << >>
    ELSE IF /\ html[k].kind = "start" /\ html[k].tag = "title"
            /\ ~html[k].hasId /\ html[k].attrs = << >>
            /\ TitleEnd(html, k) # 0
         THEN <<PlainStartTag("title"), Data(title), EndTag("title")>>
              \o SetTitle(html, title, TitleEnd(html, k) + 1)
         ELSE <<html[k]>> \o SetTitle(html, title, k + 1)

\* <meta name="description" content="..." gets the description as content
SetDescription(html, description) ==
    [k \in 1..Len(html) |->
        IF /\ IsOpenTag(html[k], "meta") /\ ~html[k].hasId
           /\ Len(html[k].attrs) >= 2
           /\ html[k].attrs[1] = Attr("name", <<"description">>)
           /\ html[k].attrs[2].name = "content"
        THEN [html[k] EXCEPT !.attrs[2].value = description]
        ELSE html[k]]

\* The document of translate_html_attributes when it does not raise
translate_html_attributes(html, lang, t, page_name) ==
    SetDescription(
        SetTitle(SetHtmlLang(html, lang), TitleOf(t, lang, page_name), 1),
        DescriptionOf(t, lang, page_name))

AlternateLanguageVersions ==
    <<"A", "l", "t", "e", "r", "n", "a", "t", "e", " ",
      "l", "a", "n", "g", "u", "a", "g", "e", " ",
      "v", "e", "r", "s", "i", "o", "n", "s">>

\* <link rel="alternate" hreflang="{hreflang}" href="{href}" />
AlternateLink(hreflang, href) ==
    TagWith("startend", "link",
            <<Attr("rel", <<"alternate">>), Attr("hreflang", <<hreflang>>),
              Attr("href", href)>>)

\* The text of hreflang_tags, an f-string that begins and ends with a newline
hreflang_tags(page_name) ==
    LET indent == <<"\n", " ", " ", " ", " ">>
        en_href == <<page_name, ".html">>
        es_href == <<"es/", page_name, ".html">>
    IN <<Data(indent),
         Comment(<<" ">> \o AlternateLanguageVersions
                 \o <<" ", "f", "o", "r", " ", "S", "E", "O", " ">>),
         Data(indent), AlternateLink("en", en_href),
         Data(indent), AlternateLink("es", es_href),
         Data(indent), AlternateLink("x-default", en_href),
         Data(<<"\n">>)>>

\* <link rel="alternate"[^>]*>
IsAlternateLink(ev) ==
    /\ IsOpenTag(ev, "link") /\ ~ev.hasId
    /\ Len(ev.attrs) >= 1 /\ ev.attrs[1] = Attr("rel", <<"alternate">>)

\* \s* at position i: the position after an all-whitespace text node
SkipWhitespace(html, i) ==
    IF i <= Len(html) /\ html[i].kind = "data" /\ AllWhitespace(html[i].data)
    THEN i + 1 ELSE i

\* The removal pattern matches from the comment at position k: the position
\* of the third link, 0 when there is no match. (The comments of the model's
\* documents are those of hreflang blocks, so .*? stops at the comment's end.)
HreflangBlockEnd(html, k) ==
    LET l1 == SkipWhitespace(html, k + 1)
        l2 == SkipWhitespace(html, l1 + 1)
        l3 == SkipWhitespace(html, l2 + 1)
    IN IF /\ html[k].kind = "comment"
          /\ StartsWith(LStrip(html[k].data), AlternateLanguageVersions)
          /\ l3 <= Len(html)
          /\ IsAlternateLink(html[l1]) /\ IsAlternateLink(html[l2])
          /\ IsAlternateLink(html[l3])
       THEN l3 ELSE 0

\* add_hreflang_tags, were the existing block left in place
RemoveHreflangNothing(html, k) == html

RECURSIVE RemoveHreflang(_, _)
\* Remove any existing hreflang tags first to avoid duplicates (from k on)
RemoveHreflang(html, k) ==
    IF k > Len(html) THEN << >>
    ELSE IF HreflangBlockEnd(html, k) # 0
         THEN RemoveHreflang(html, HreflangBlockEnd(html, k) + 1)
         ELSE <<html[k]>> \o RemoveHreflang(html, k + 1)

\* <meta\s+name="viewport"[^>]*>
IsViewport(ev) ==
    /\ IsOpenTag(ev, "meta") /\ ~ev.hasId
    /\ Len(ev.attrs) >= 1 /\ ev.attrs[1] = Attr("name", <<"viewport">>)

RECURSIVE InsertHreflang(_, _)
\* Insert after viewport meta tag
InsertHreflang(html, tags) ==
    IF html = << >> THEN << >>
    ELSE <<Head(html)>> \o (IF IsViewport(Head(html)) THEN tags ELSE << >>)
         \o InsertHreflang(Tail(html), tags)

add_hreflang_tags(html, page_name) ==
    MergeData(InsertHreflang(MergeData(RemoveHreflang(html, 1)),
                             hreflang_tags(page_name)))

\* The substitutions of update_asset_paths, in their order, on one attribute.
\* A path is the sequence of its segments.
PrefixedPath(name, value) ==
    LET first == IF value = << >> THEN "" ELSE Head(value)
        parent == <<"../">> \o value
    IN IF name = "href" /\ first \in {"style.css", "css/"} THEN parent
       ELSE IF name = "src" /\ ((first = "js/" /\ Len(value) > 1) \/ first = "app.js")
       THEN parent
       ELSE IF name \in {"href", "src"} /\ first = "media/" /\ Len(value) > 1
       THEN parent
       ELSE IF name = "src" /\ first = "data/" /\ Len(value) > 1 THEN parent
       ELSE value

update_asset_paths(html, is_default) ==
    IF is_default THEN html
    ELSE [k \in 1..Len(html) |->
            [html[k] EXCEPT !.attrs =
                [i \in 1..Len(html[k].attrs) |->
                    [html[k].attrs[i] EXCEPT
                        !.value = PrefixedPath(html[k].attrs[i].name, @)]]]]

\* <site-header ...> and <site-footer ...> get lang="{lang}": appended when the
\* tag has no lang attribute, else in place of the value of each one
update_component_lang_attributes(html, lang) ==
    [k \in 1..Len(html) |->
        IF IsOpenTag(html[k], "site-header") \/ IsOpenTag(html[k], "site-footer")
        THEN IF \E i \in 1..Len(html[k].attrs) : html[k].attrs[i].name = "lang"
             THEN [html[k] EXCEPT !.attrs =
                      [i \in 1..Len(html[k].attrs) |->
                          IF html[k].attrs[i].name = "lang"
                          THEN Attr("lang", <<lang>>) ELSE html[k].attrs[i]]]
             ELSE [html[k] EXCEPT !.attrs = Append(@, Attr("lang", <<lang>>))]
        ELSE html[k]]

\* title_map and desc_map are built whole, whatever the page: a key the
\* table lacks raises KeyError
translate_html_attributes_raises(t) == ~(MetaKeys \subseteq t.keys)

\* A text node is delimited by the > and < of tags and of comments
IsTag(ev) == ev.kind \in {"start", "end", "startend", "comment"}

\* The text node matches \s*en_text\s*
MatchesPadded(data, en_text) ==
    \E i \in 1..(Len(data) + 1) : \E j \in (i - 1)..Len(data) :
        /\ SubSeq(data, i, j) = en_text
        /\ \A k \in 1..(i - 1) : data[k] \in Whitespace
        /\ \A k \in (j + 1)..Len(data) : data[k] \in Whitespace

\* id="element_id"([^>]*)>\s*en_text\s*<  matches at the tag at position k
IdPatternAt(html, k, element_id, en_text) ==
    /\ k + 2 <= Len(html)
    /\ html[k].kind \in {"start", "startend"}
    /\ html[k].hasId /\ html[k].id = element_id
    /\ html[k + 1].kind = "data" /\ MatchesPadded(html[k + 1].data, en_text)
    /\ IsTag(html[k + 2])

\* (>)\s*en_text\s*(<)  matches the text node at position k
TextPatternAt(html, k, en_text) ==
    /\ 1 < k /\ k < Len(html)
    /\ html[k].kind = "data" /\ MatchesPadded(html[k].data, en_text)
    /\ IsTag(html[k - 1]) /\ IsTag(html[k + 1])

RECURSIVE ReplaceTextAt(_, _, _, _)
\* The text nodes at the positions in `at` become target_text (from k on);
\* an empty replacement leaves no text node
ReplaceTextAt(html, at, target_text, k) ==
    IF k > Len(html) THEN << >>
    ELSE (IF k \in at
          THEN (IF Truthy(target_text) THEN <<Data(target_text)>> ELSE << >>)
          ELSE <<html[k]>>)
         \o ReplaceTextAt(html, at, target_text, k + 1)

\* (placeholder|title|aria-label)="\s*en_text\s*" gets target_text as value
ReplaceAttributes(html, en_text, target_text) ==
    [k \in 1..Len(html) |->
        [html[k] EXCEPT !.attrs =
            [i \in 1..Len(html[k].attrs) |->
                IF /\ html[k].attrs[i].name \in {"placeholder", "title", "aria-label"}
                   /\ MatchesPadded(html[k].attrs[i].value, en_text)
                THEN Attr(html[k].attrs[i].name, target_text)
                ELSE html[k].attrs[i]]]]

\* One row of translate_content's loop, were the `continue` after the
\* substitution by id lost: the text matching goes on
TranslateRowWithoutContinue(html, element_id, en_text, target_text) ==
    LET byId == {k + 1 : k \in {n \in 1..Len(html) :
                                   IdPatternAt(html, n, element_id, en_text)}}
        first == IF byId # {} THEN ReplaceTextAt(html, byId, target_text, 1) ELSE html
        byText == {k \in 1..Len(first) : TextPatternAt(first, k, en_text)}
    IN IF ~Truthy(en_text) \/ en_text = target_text THEN html
       ELSE ReplaceAttributes(ReplaceTextAt(first, byText, target_text, 1),
                              en_text, target_text)

\* One row of translate_content's loop
TranslateRow(html, element_id, en_text, target_text) ==
    LET byId == {k + 1 : k \in {n \in 1..Len(html) :
                                   IdPatternAt(html, n, element_id, en_text)}}
        byText == {k \in 1..Len(html) : TextPatternAt(html, k, en_text)}
    IN IF ~Truthy(en_text) \/ en_text = target_text THEN html
       ELSE IF byId # {} THEN ReplaceTextAt(html, byId, target_text, 1)
       ELSE ReplaceAttributes(ReplaceTextAt(html, byText, target_text, 1),
                              en_text, target_text)

RECURSIVE TranslateRows(_, _, _)
\* for element_id, target_text in translations.items(): ... (from item k on)
TranslateRows(html, csv_translations, k) ==
    IF k > Len(csv_translations.es.keys) THEN html
    ELSE LET element_id == csv_translations.es.keys[k]
             en_text == IF DictHas(csv_translations.en, element_id)
                        THEN DictGet(csv_translations.en, element_id)
                        ELSE EmptyText
         IN TranslateRows(
                TranslateRow(html, element_id, en_text, csv_translations.es.vals[k]),
                csv_translations, k + 1)

translate_content(html, lang, csv_translations) ==
    IF lang = "en" THEN html ELSE TranslateRows(html, csv_translations, 1)

\* generate_page, were a missing template an error instead of a skipped page
generate_pageRaisingOnMissingTemplate(tree, page_name, lang, translations, csv_translations) ==
    LET source_file == tree[<<"en", page_name>>]
    IN IF ~source_file.exists \/ translate_html_attributes_raises(translations)
       THEN [kind |-> "raised", html |-> << >>]
       ELSE [kind |-> "html",
             html |-> translate_content(
                 update_component_lang_attributes(
                     update_asset_paths(
                         add_hreflang_tags(
                             translate_html_attributes(source_file.doc, lang,
                                                       translations, page_name),
                             page_name),
                         lang = "en"),
                     lang),
                 lang, csv_translations)]

\* [kind, html]: "none" when the template is absent, "raised" when a step
\* raises, else the generated document
generate_page(tree, page_name, lang, translations, csv_translations) ==
    LET source_file == tree[<<"en", page_name>>]
        is_default == lang = "en"
        step1 == translate_html_attributes(source_file.doc, lang, translations,
                                           page_name)
        step2 == add_hreflang_tags(step1, page_name)
        step3 == update_asset_paths(step2, is_default)
        step4 == update_component_lang_attributes(step3, lang)
    IN IF ~source_file.exists THEN [kind |-> "none", html |-> << >>]
       ELSE IF translate_html_attributes_raises(translations)
       THEN [kind |-> "raised", html |-> << >>]
       ELSE [kind |-> "html",
             html |-> translate_content(step4, lang, csv_translations)]

(***************************************************************************)
(* State                                                                   *)
(***************************************************************************)

VARIABLES
    tree,           \* the HTML files: path -> [exists, doc]
    store,          \* i18n/translations.csv
    prior,          \* the Store as the last sync run found it
    updated_rows,   \* main's updated_rows of the last sync run
    syncStatus,     \* "none", "written", or "failed" (the run raised)
    unchanged,      \* the last sync wrote the Store and nothing changed since
    meta,           \* i18n/en.json and i18n/es.json: language -> [exists, keys]
    gen,            \* the generator run: its position and its locals
    written,        \* the output files the generator run has written
    runs            \* the generator runs started so far, and the files they wrote

vars ==
    <<tree, store, prior, updated_rows, syncStatus, unchanged, meta, gen, written,
      runs>>

syncVars == <<prior, updated_rows, syncStatus, unchanged>>
genVars == <<meta, gen, written, runs>>

\* No generator run yet
GenIdle ==
    [pc |-> "idle", lang |-> 1, page |-> 1,
     csv_translations |-> [en |-> EmptyDict, es |-> EmptyDict],
     translations |-> AbsentMeta, failedAt |-> << >>]

CompleteMeta == [l \in {"en", "es"} |-> MetaOf(MetaKeys)]

NoRuns == [count |-> 0, generated |-> {}]

(***************************************************************************)
(* Inputs                                                                  *)
(***************************************************************************)

NavKebab == <<"n", "a", "v", "-", "l", "o", "g", "o">>
NavSnake == <<"n", "a", "v", "_", "l", "o", "g", "o">>

Home == <<"H", "o", "m", "e">>
Menu == <<"M", "e", "n", "u">>
Blank == <<"\n", " ">>
Inicio == <<"I", "n", "i", "c", "i", "o">>
\* 'Ini&#13;cio': a character reference arrives as a carriage return
InicioCR == <<"I", "n", "i", "\r", "c", "i", "o">>
Hola == <<"H", "o", "l", "a">>

\* Snippets of the HTML pages: a closed element, an element whose capture is
\* still open when the next one starts (a void element, a container), and a
\* self-closing element
Closed(id, text) == <<StartTag("p", id), Data(text), EndTag("p")>>
Unclosed(id, text) == <<StartTag("div", id), Data(text)>>
SelfClosing(id) == <<StartEndTag("img", id)>>

Snippets(ids, texts) ==
    {Closed(id, t) : id \in ids, t \in texts}
    \cup {Unclosed(id, t) : id \in ids, t \in texts}
    \cup {SelfClosing(id) : id \in ids}

\* Bounds
MaxSnippets == 2
MaxStoreRows == 1

\* A file of n snippets; no snippet, no file
FilesOf(snippets, n) ==
    IF n = 0 THEN {AbsentFile}
    ELSE {FileOf(Concat(f)) : f \in [1..n -> snippets]}

\* The trees with index.html, about.html and es/index.html made of at most
\* `budget` snippets in all, each file of its own snippets
Trees(indexSnippets, aboutSnippets, esSnippets, budget) ==
    UNION {
        {[path \in Paths |->
            CASE path = <<"en", "index">> -> f1
              [] path = <<"en", "about">> -> f2
              [] path = <<"es", "index">> -> f3
              [] OTHER -> AbsentFile] :
            f1 \in FilesOf(indexSnippets, n[1]),
            f2 \in FilesOf(aboutSnippets, n[2]),
            f3 \in FilesOf(esSnippets, n[3])} :
        n \in {m \in [1..3 -> 0..budget] : m[1] + m[2] + m[3] <= budget}}

\* Stores of at most n rows with distinct ids
Stores(ids, esTexts, n) ==
    {AbsentStore} \cup
    {StoreOf(rows) : rows \in
        {r \in UNION {[1..k -> {Row(pg, "p", id, Home, es) :
                                  pg \in {"", "index", "about"},
                                  id \in ids, es \in esTexts}] : k \in 0..n} :
            \A i, j \in 1..Len(r) : i # j => r[i].id # r[j].id}}

SyncIds == {NavKebab, NavSnake}

Init ==
    /\ tree \in Trees(Snippets(SyncIds, {Home, Menu, Blank}),
                      Snippets(SyncIds, {Home, Menu, Blank}),
                      Snippets(SyncIds, {Inicio, InicioCR}), MaxSnippets)
    /\ store \in Stores(SyncIds, {EmptyText, Hola}, MaxStoreRows)
    /\ prior = AbsentStore
    /\ updated_rows = << >>
    /\ syncStatus = "none"
    /\ unchanged = FALSE
    /\ meta = CompleteMeta
    /\ gen = GenIdle
    /\ written = {}
    /\ runs = NoRuns

(***************************************************************************)
(* sync_translations.main                                                  *)
(***************************************************************************)

RECURSIVE WithStatus(_, _)
\* [row for row in updated_rows if row['status'] == status]
WithStatus(rows, status) ==
    IF rows = << >> THEN << >>
    ELSE IF Head(rows).status = status
         THEN <<Head(rows)>> \o WithStatus(Tail(rows), status)
         ELSE WithStatus(Tail(rows), status)

\* One run of the sync script. An exception of the scan ends it before
\* anything is loaded or written.
Sync ==
    LET scanned == scan_html_files(tree)
        existing_data == load_existing_csv(store)
        rows == create_updated_csv(scanned.page_ids, scanned.tag_info, existing_data)
        final_rows == WithStatus(rows, "active")
    IN IF scanned.failed
       THEN /\ syncStatus' = "failed"
            /\ unchanged' = FALSE
            /\ UNCHANGED <<tree, store, prior, updated_rows, genVars>>
       ELSE /\ store' = StoreOf(write_csv(final_rows))
            /\ prior' = store
            /\ updated_rows' = rows
            /\ syncStatus' = "written"
            /\ unchanged' = TRUE
            /\ UNCHANGED <<tree, genVars>>

\* The translator fills in the Spanish text of a row of the Store by hand
Translate ==
    \E i \in 1..Len(store.rows) :
        /\ store.exists
        /\ store.rows[i].es = EmptyText
        /\ store' = [store EXCEPT !.rows[i].es = Hola]
        /\ unchanged' = FALSE
        /\ UNCHANGED <<tree, prior, updated_rows, syncStatus, genVars>>

Next == Sync \/ Translate

Spec == Init /\ [][Next]_vars

\* The deduplication inputs: four identifiers of the three styles, closed
\* elements of index.html only, no Store yet
Camel == <<"x">>
LongKebab == [i \in 1..152 |-> IF i = 2 THEN "-" ELSE "a"]

DedupIds == {NavKebab, NavSnake, Camel, LongKebab}

MaxDedupSnippets == 3

InitDedup ==
    /\ tree \in Trees({Closed(id, t) : id \in DedupIds, t \in {Home, Menu}},
                      {}, {}, MaxDedupSnippets)
    /\ store = AbsentStore
    /\ prior = AbsentStore
    /\ updated_rows = << >>
    /\ syncStatus = "none"
    /\ unchanged = FALSE
    /\ meta = CompleteMeta
    /\ gen = GenIdle
    /\ written = {}
    /\ runs = NoRuns

SpecDedup == InitDedup /\ [][Next]_vars

\* The extractor's inputs: index.html is any sequence of at most MaxEvents
\* parser events (the parser delivers a run of text as one event), no Store yet
MaxEvents == 5

PaddedHome == <<"\n", " ">> \o Home

ParserEvents ==
    {StartTag("div", NavKebab), StartTag("p", NavSnake), StartEndTag("img", NavKebab),
     PlainStartTag("p"), EndTag("div"), EndTag("p"), Data(Home), Data(PaddedHome)}

EventSequences ==
    {doc \in UNION {[1..n -> ParserEvents] : n \in 1..MaxEvents} :
        \A i \in 1..(Len(doc) - 1) : ~(doc[i].kind = "data" /\ doc[i + 1].kind = "data")}

InitExtract ==
    /\ tree \in {[path \in Paths |->
                    IF path = <<"en", "index">> THEN FileOf(doc) ELSE AbsentFile] :
                 doc \in EventSequences}
    /\ store = AbsentStore
    /\ prior = AbsentStore
    /\ updated_rows = << >>
    /\ syncStatus = "none"
    /\ unchanged = FALSE
    /\ meta = CompleteMeta
    /\ gen = GenIdle
    /\ written = {}
    /\ runs = NoRuns

SpecExtract == InitExtract /\ [][Next]_vars

\* The inputs of nested declarations: index.html is an element nav-logo, with
\* or without text before and after an inner element that declares nav-logo
\* again or nav_logo, each of the two closed or not; no Store yet
NestedDocuments ==
    {<<StartTag(otag, NavKebab)>> \o before
     \o <<StartTag(itag, id)>> \o text \o iclose \o after \o oclose :
        otag \in {"div", "p"}, itag \in {"div", "p"},
        id \in {NavKebab, NavSnake},
        before \in {<< >>, <<Data(Home)>>},
        text \in {<< >>, <<Data(Menu)>>, <<Data(PaddedHome)>>},
        after \in {<< >>, <<Data(Hola)>>},
        iclose \in {<< >>, <<EndTag("div")>>, <<EndTag("p")>>},
        oclose \in {<< >>, <<EndTag("div")>>, <<EndTag("p")>>}}

InitNested ==
    /\ tree \in {[path \in Paths |->
                    IF path = <<"en", "index">> THEN FileOf(doc) ELSE AbsentFile] :
                 doc \in NestedDocuments}
    /\ store = AbsentStore
    /\ prior = AbsentStore
    /\ updated_rows = << >>
    /\ syncStatus = "none"
    /\ unchanged = FALSE
    /\ meta = CompleteMeta
    /\ gen = GenIdle
    /\ written = {}
    /\ runs = NoRuns

SpecNested == InitNested /\ [][Next]_vars

(***************************************************************************)
(* generate_i18n_all.main                                                  *)
(***************************************************************************)

GenRunning == gen.pc \in {"lang", "page"}

\* The number of generator runs the model follows
MaxRuns == 2

\* The run ends with an uncaught exception, raised while (lang, page) was
\* the unit of work (page 0: before the pages of the language)
Abort(lang, page) ==
    gen' = [gen EXCEPT !.pc = "aborted", !.failedAt = <<lang, page>>]

\* A run starts: csv_translations = load_translations_csv()
GenStart ==
    /\ ~GenRunning
    /\ runs.count < MaxRuns
    /\ runs' = [runs EXCEPT !.count = @ + 1]
    /\ LET loaded == load_translations_csv(store)
       IN IF loaded.raised
          THEN gen' = [GenIdle EXCEPT !.pc = "aborted", !.failedAt = <<0, 0>>]
          ELSE gen' = [GenIdle EXCEPT !.pc = "lang",
                                      !.csv_translations = loaded.translations]
    /\ written' = {}
    /\ UNCHANGED <<tree, store, syncVars, meta>>

\* for lang in languages: translations = load_translations(lang)
GenLoadLang ==
    /\ gen.pc = "lang"
    /\ IF gen.lang > Len(languages)
       THEN gen' = [gen EXCEPT !.pc = "done"]
       ELSE IF load_translations_raises(meta[languages[gen.lang]])
       THEN Abort(gen.lang, 0)
       ELSE gen' = [gen EXCEPT !.pc = "page", !.page = 1,
                               !.translations = meta[languages[gen.lang]]]
    /\ UNCHANGED <<tree, store, syncVars, meta, written, runs>>

\* for page_name in pages: generate the page and write the output file
GenPage ==
    /\ gen.pc = "page"
    /\ IF gen.page > Len(pages)
       THEN /\ gen' = [gen EXCEPT !.pc = "lang", !.lang = @ + 1]
            /\ UNCHANGED <<tree, written, unchanged, runs>>
       ELSE LET lang == languages[gen.lang]
                page_name == pages[gen.page]
                r == generate_page(tree, page_name, lang, gen.translations,
                                   gen.csv_translations)
            IN CASE r.kind = "none" ->
                      /\ gen' = [gen EXCEPT !.page = @ + 1]
                      /\ UNCHANGED <<tree, written, unchanged, runs>>
                 [] r.kind = "raised" ->
                      /\ Abort(gen.lang, gen.page)
                      /\ UNCHANGED <<tree, written, unchanged, runs>>
                 [] r.kind = "html" ->
                      /\ tree' = [tree EXCEPT ![<<lang, page_name>>] = FileOf(r.html)]
                      /\ written' = written \cup {<<lang, page_name>>}
                      /\ runs' = [runs EXCEPT !.generated = @ \cup {<<lang, page_name>>}]
                      /\ unchanged' = FALSE
                      /\ gen' = [gen EXCEPT !.page = @ + 1]
    /\ UNCHANGED <<store, prior, updated_rows, syncStatus, meta>>

NextGen == GenStart \/ GenLoadLang \/ GenPage

\* The generator's inputs: the Store and each metadata table present or not,
\* a table with a key missing, each of the first MaxTemplates page templates
\* present or not
MaxTemplates == 2

IncompleteMeta == MetaOf(MetaKeys \ {<<"portfolio", "title">>})

\* The page templates: a page of two identified elements only, and whole
\* pages (with or without viewport meta tag, with or without the nav_logo
\* element) that hold each kind of reference update_asset_paths looks for
PlainPage == Closed(NavKebab, Home) \o Closed(NavSnake, Menu)

References ==
    <<TagWith("start", "link",
              <<Attr("rel", <<"stylesheet">>), Attr("href", <<"style.css">>)>>),
      TagWith("start", "link",
              <<Attr("rel", <<"stylesheet">>), Attr("href", <<"css/", "site.css">>)>>),
      TagWith("start", "link",
              <<Attr("rel", <<"preload">>), Attr("href", <<"js/", "site.js">>)>>),
      TagWith("start", "script", <<Attr("src", <<"js/", "site.js">>)>>),
      EndTag("script"),
      TagWith("start", "script", <<Attr("src", <<"app.js">>)>>),
      EndTag("script"),
      TagWith("start", "img", <<Attr("src", <<"media/", "logo.png">>)>>),
      TagWith("start", "video",
              <<Attr("src", <<"media/", "reel.mp4">>),
                Attr("poster", <<"media/", "reel.jpg">>)>>),
      EndTag("video"),
      TagWith("start", "home-gallery", <<Attr("src", <<"data/", "home.json">>)>>),
      EndTag("home-gallery"),
      TagWith("start", "a", <<Attr("href", <<"contact.html">>)>>),
      Data(Hola),
      EndTag("a")>>

WholePage(viewport, snake) ==
    <<TagWith("start", "html", <<Attr("lang", <<"en">>)>>),
      PlainStartTag("head"),
      PlainStartTag("title"), Data(<<"t">>), EndTag("title"),
      TagWith("start", "meta",
              <<Attr("name", <<"description">>), Attr("content", <<"d">>)>>)>>
    \o (IF viewport
        THEN <<TagWith("start", "meta",
                       <<Attr("name", <<"viewport">>), Attr("content", <<"w">>)>>)>>
        ELSE << >>)
    \o <<EndTag("head"), PlainStartTag("body"),
         TagWith("start", "site-header", << >>), EndTag("site-header")>>
    \o References
    \o Closed(NavKebab, Home)
    \o (IF snake THEN Closed(NavSnake, Menu)
        ELSE <<TagWith("start", "input", <<Attr("placeholder", Menu)>>)>>)
    \o <<TagWith("start", "site-footer", <<Attr("lang", <<"en">>)>>),
         EndTag("site-footer"), EndTag("body"), EndTag("html")>>

WholePages ==
    {WholePage(TRUE, TRUE), WholePage(TRUE, FALSE), WholePage(FALSE, TRUE)}

\* Each of the first MaxTemplates page templates absent or one of docs
TemplateTrees(docs) ==
    {[path \in Paths |->
        IF path[1] = "en" /\ path[2] \in DOMAIN f THEN f[path[2]] ELSE AbsentFile] :
     f \in [{pages[p] : p \in 1..MaxTemplates} ->
               {AbsentFile} \cup {FileOf(d) : d \in docs}]}

GenTrees == TemplateTrees({PlainPage})

\* The Store after a sync of the templates, with the Spanish column as the
\* translator left it: empty, a translation, the source text again, or the
\* text that is the source text of the other row
GenStores ==
    {StoreOf(<<Row("index", "p", NavKebab, Home, es1),
               Row("index", "p", NavSnake, Menu, es2)>>) :
        es1 \in {Inicio, Home, Menu, EmptyText}, es2 \in {EmptyText, Hola, Menu}}

\* The title of the site is a word that is also the text of a page element
MenuTitledMeta == [l \in {"en", "es"} |-> MetaTitled(MetaKeys, Menu)]

InitGen ==
    /\ \/ /\ tree \in GenTrees
          /\ store \in {AbsentStore,
                        StoreOf(<<Row("index", "p", NavKebab, Home, Inicio),
                                  Row("index", "p", NavSnake, Menu, EmptyText)>>)}
          /\ meta \in [{"en", "es"} -> {AbsentMeta, MetaOf(MetaKeys), IncompleteMeta}]
       \/ /\ tree \in TemplateTrees(WholePages)
          /\ store \in GenStores
          /\ meta \in {CompleteMeta, MenuTitledMeta}
    /\ prior = AbsentStore
    /\ updated_rows = << >>
    /\ syncStatus = "none"
    /\ unchanged = FALSE
    /\ gen = GenIdle
    /\ written = {}
    /\ runs = NoRuns

SpecGen == InitGen /\ [][NextGen]_vars

(***************************************************************************)
(* The pipeline: sync, translate, generate, sync again                     *)
(***************************************************************************)

HeadId == <<"h", "e", "a", "d">>

\* Page templates of the pipeline: an element with a nested element without
\* id, and a page whose <head> has an id
NestedPage ==
    <<StartTag("p", NavKebab), Data(Home), PlainStartTag("b"), Data(Menu),
      EndTag("b"), EndTag("p")>>
    \o Closed(NavSnake, Menu)

HeadPage ==
    <<TagWith("start", "html", <<Attr("lang", <<"en">>)>>),
      StartTag("head", HeadId),
      PlainStartTag("title"), Data(<<"t">>), EndTag("title"),
      TagWith("start", "meta",
              <<Attr("name", <<"viewport">>), Attr("content", <<"w">>)>>),
      EndTag("head"), PlainStartTag("body")>>
    \o Closed(NavKebab, Home)
    \o <<EndTag("body"), EndTag("html")>>

PipelineTrees ==
    {[path \in Paths |->
        CASE path = <<"en", "index">> -> FileOf(index)
          [] path = <<"en", "about">> -> about
          [] OTHER -> AbsentFile] :
     index \in {PlainPage, NestedPage, HeadPage, WholePage(TRUE, TRUE)},
     about \in {AbsentFile, FileOf(PlainPage)}}

\* A row marked deleted, as a hand-edited Store may hold it
DeletedRow == [Row("about", "p", NavSnake, Menu, Hola) EXCEPT !.status = "deleted"]

\* No generated page yet; the Store absent, left by an earlier sync, or
\* holding a row marked deleted
InitPipeline ==
    /\ tree \in PipelineTrees
    /\ store \in {AbsentStore, StoreOf(<<Row("index", "p", NavKebab, Home, Inicio)>>),
                  StoreOf(<<DeletedRow>>)}
    /\ prior = AbsentStore
    /\ updated_rows = << >>
    /\ syncStatus = "none"
    /\ unchanged = FALSE
    /\ meta = CompleteMeta
    /\ gen = GenIdle
    /\ written = {}
    /\ runs = NoRuns

\* The scripts are run one after the other: a sync run or an edit of the
\* translator happens between two generator runs, never during one
SyncBetweenRuns == ~GenRunning /\ Sync
TranslateBetweenRuns == ~GenRunning /\ Translate

NextPipeline ==
    SyncBetweenRuns \/ TranslateBetweenRuns \/ GenStart \/ GenLoadLang \/ GenPage

SpecPipeline == InitPipeline /\ [][NextPipeline]_vars

(***************************************************************************)
(* Properties of the reconciler                                            *)
(***************************************************************************)

RowIds(rows) == {rows[i].id : i \in 1..Len(rows)}
StoreIds == RowIds(store.rows)
PriorIds == RowIds(prior.rows)
RowOf(rows, id) == rows[CHOOSE i \in 1..Len(rows) : rows[i].id = id]

\* What the extractor returns for a file of the tree
Extracted(path) ==
    IF tree[path].exists THEN Feed(tree[path].doc).elements ELSE EmptyDict

EnPaths == {path \in Paths : path[1] = "en"}
EsPaths == {path \in Paths : path[1] = "es"}

\* The identifier occurs in the file
OccursIn(id, path) == DictHas(Extracted(path), id)

\* The text the identifier has in the file, as a string
TextIn(id, path) == ContentToString(DictGet(Extracted(path), id))

\* The run that just ended wrote the Store
JustSynced == unchanged

\* C1: after a sync run the ids of the rows of the written Store are pairwise
\* distinct, also when an identifier occurs on several pages or in both
\* language versions of a page.
C1_UniqueIds ==
    JustSynced =>
        \A i, j \in 1..Len(store.rows) :
            i # j => store.rows[i].id # store.rows[j].id

\* C1's case: an identifier with different texts on two pages and in the
\* written Store
C1_Witness ==
    /\ JustSynced
    /\ \E id \in StoreIds :
          /\ OccursIn(id, <<"en", "index">>) /\ OccursIn(id, <<"en", "about">>)
          /\ Truthy(Strip(TextIn(id, <<"en", "index">>)))
          /\ Truthy(Strip(TextIn(id, <<"en", "about">>)))
          /\ TextIn(id, <<"en", "index">>) # TextIn(id, <<"en", "about">>)

\* C1's second case: an identifier in both language versions of a page
C1_WitnessBothLanguages ==
    /\ JustSynced
    /\ \E id \in StoreIds :
          OccursIn(id, <<"en", "index">>) /\ OccursIn(id, <<"es", "index">>)

\* C2: no row whose English source text is empty or whitespace-only is
\* written to the Store by a sync run.
C2_NoEmptySource ==
    JustSynced =>
        \A i \in 1..Len(store.rows) : Truthy(Strip(store.rows[i].en))

\* C2's case: an identifier of the prior Store whose capture was left open
\* with whitespace only, and which the run did not write
C2_Witness ==
    /\ JustSynced
    /\ \E id \in PriorIds \ StoreIds : \E path \in EnPaths :
          /\ OccursIn(id, path)
          /\ DictGet(Extracted(path), id).isList
          /\ Truthy(TextIn(id, path))
          /\ ~Truthy(Strip(TextIn(id, path)))

C4_Idempotent == [][(unchanged /\ Sync) => store' = store]_vars

\* The score as the claim states it
ClaimedScore(id) ==
    (IF Contains(id, "-") THEN 100 ELSE 0)
    + (IF Contains(id, "_") THEN -1000 ELSE 0)
    + (IF ~Contains(id, "-") /\ ~Contains(id, "_") THEN -50 ELSE 0)
    - Len(id)

\* The candidate identifiers carrying the text
CandidatesWith(text) ==
    {updated_rows[i].id : i \in {j \in 1..Len(updated_rows) : updated_rows[j].en = text}}

\* C5: for each distinct English text among the candidate rows, write_csv
\* keeps exactly one row, a candidate row whose identifier has the highest
\* score of the candidates carrying that text; of nav_logo and nav-logo with
\* the same text, nav-logo is kept.
C5_KeepsHighestScore ==
    JustSynced =>
        /\ \A i \in 1..Len(updated_rows) :
              LET text == updated_rows[i].en
                  kept == {k \in 1..Len(store.rows) : store.rows[k].en = text}
              IN /\ Cardinality(kept) = 1
                 /\ \A k \in kept :
                       /\ store.rows[k].id \in CandidatesWith(text)
                       /\ \A id \in CandidatesWith(text) :
                             ClaimedScore(store.rows[k].id) >= ClaimedScore(id)
        /\ \A k \in 1..Len(store.rows) :
              \E i \in 1..Len(updated_rows) : updated_rows[i] = store.rows[k]
        /\ \A text \in {Home, Menu} :
              {NavKebab, NavSnake} \subseteq CandidatesWith(text)
                  => NavSnake \notin StoreIds

\* C5's case: nav_logo met before nav-logo with the same text, a third
\* candidate with that text, and nav-logo kept
C5_Witness ==
    /\ JustSynced
    /\ \E i, j \in 1..Len(updated_rows) :
          /\ i < j
          /\ updated_rows[i].id = NavSnake /\ updated_rows[j].id = NavKebab
          /\ updated_rows[i].en = updated_rows[j].en
          /\ Cardinality(CandidatesWith(updated_rows[i].en)) = 3
    /\ NavKebab \in StoreIds /\ NavSnake \notin StoreIds

HyphenSeparated(id) == Contains(id, "-") /\ ~Contains(id, "_")

\* C6: of two candidates with the same text, one hyphen-separated and one
\* with no hyphen, the one with no hyphen is never the one kept, whatever
\* their lengths.
C6_HyphenAlwaysWins ==
    JustSynced =>
        \A i, j \in 1..Len(updated_rows) :
            (/\ updated_rows[i].en = updated_rows[j].en
             /\ HyphenSeparated(updated_rows[i].id)
             /\ ~Contains(updated_rows[j].id, "-"))
                => updated_rows[j].id \notin StoreIds

\* C7: an identifier with a non-empty Spanish text in the prior Store that
\* survives the sync is written with the prior Store's Spanish text.
C7_StoredTranslationWins ==
    JustSynced =>
        \A id \in PriorIds \cap StoreIds :
            Truthy(RowOf(prior.rows, id).es)
                => RowOf(store.rows, id).es = RowOf(prior.rows, id).es

\* C8: every identifier with non-empty text in some default-language page
\* gets a candidate row.
C8_EveryTextGetsCandidate ==
    JustSynced =>
        \A path \in EnPaths : \A k \in 1..Len(Extracted(path).keys) :
            LET id == Extracted(path).keys[k]
            IN Truthy(Strip(TextIn(id, path))) => id \in RowIds(updated_rows)

(***************************************************************************)
(* Properties of the extractor                                             *)
(***************************************************************************)

\* The files the extractor reads without raising
Readable == {path \in Paths : tree[path].exists /\ ~Feed(tree[path].doc).failed}

\* C19: once a whole document is processed, every identifier of the output
\* maps to a single string that is normalized: whitespace runs collapsed to
\* one space, no space at either end.
C19_NormalizedOutput ==
    \A path \in Readable :
        LET elements == Extracted(path)
        IN \A i \in 1..Len(elements.keys) :
              /\ ~elements.vals[i].isList
              /\ elements.vals[i].str = NormalizeContent(elements.vals[i].str)

\* Position of the first close tag of this kind after position k, 0 if none
FirstClose(doc, tag, k) ==
    LET ends == {j \in (k + 1)..Len(doc) : doc[j].kind = "end" /\ doc[j].tag = tag}
    IN IF ends = {} THEN 0 ELSE CHOOSE j \in ends : \A i \in ends : j <= i

RECURSIVE OwnText(_, _, _)
\* The text between positions i and j that is not inside a nested element
\* with an id (such an element spans to the first close tag of its kind)
OwnText(doc, i, j) ==
    IF i >= j THEN EmptyText
    ELSE IF doc[i].kind = "data" THEN doc[i].data \o OwnText(doc, i + 1, j)
    ELSE IF doc[i].kind = "start" /\ doc[i].hasId
         THEN (IF FirstClose(doc, doc[i].tag, i) = 0 THEN EmptyText
               ELSE OwnText(doc, FirstClose(doc, doc[i].tag, i) + 1, j))
    ELSE OwnText(doc, i + 1, j)

\* The open tags that declare an identifier declared nowhere else in doc and
\* that have a close tag of their kind after them
ClosedDeclarations(doc) ==
    {k \in 1..Len(doc) :
        /\ doc[k].kind = "start" /\ doc[k].hasId
        /\ \A n \in 1..Len(doc) : (n # k /\ doc[n].hasId) => doc[n].id # doc[k].id
        /\ FirstClose(doc, doc[k].tag, k) # 0}

\* C20: the text recorded for an identifier is the text between the open tag
\* of its element and the first close tag of the same kind after it, that of
\* nested elements without id included (compared as normalized text).
C20_CaptureWindow ==
    \A path \in Readable :
        LET doc == tree[path].doc
        IN \A k \in ClosedDeclarations(doc) :
              NormalizeContent(JoinContent(DictGet(Extracted(path), doc[k].id)))
                  = NormalizeContent(
                        OwnText(doc, k + 1, FirstClose(doc, doc[k].tag, k)))

(***************************************************************************)
(* Properties of the generator                                             *)
(***************************************************************************)

RunEnded == gen.pc \in {"done", "aborted"}

\* C9: when the Store CSV or the metadata JSON of either language is absent,
\* a generator run writes no output file and does not complete.
C9_AbortWithoutWrite ==
    (~store.exists \/ \E l \in {"en", "es"} : ~meta[l].exists)
        => (written = {} /\ gen.pc # "done")

\* The unit can be generated: its template exists and its language's
\* metadata table is there with every key
CanGenerate(l, p) ==
    /\ tree[<<"en", pages[p]>>].exists
    /\ meta[languages[l]].exists
    /\ ~translate_html_attributes_raises(meta[languages[l]])

\* C10: when the generation of one (page, language) unit has failed, every
\* other unit that can be generated has been written by the end of the run.
C10_FailureConfined ==
    (RunEnded /\ gen.failedAt # << >> /\ gen.failedAt[2] >= 1) =>
        \A l \in 1..Len(languages) : \A p \in 1..Len(pages) :
            (<<l, p>> # gen.failedAt /\ CanGenerate(l, p))
                => <<languages[l], pages[p]>> \in written

\* The template of page p exists
HasTemplate(p) == tree[<<"en", p>>].exists

\* C11: a page whose template file does not exist is skipped: the step of the
\* page loop that meets it does not abort the run, writes nothing and goes on
\* to the next page, and a run that ends normally has written, for both
\* languages, exactly the pages whose template exists.
C11_MissingTemplateSkipped ==
    [][/\ (gen.pc = "page" /\ gen.page <= Len(pages) /\ ~HasTemplate(pages[gen.page]))
          => /\ gen'.pc = "page" /\ gen'.page = gen.page + 1
             /\ tree' = tree /\ written' = written
       /\ gen'.pc = "done"
          => written' = {path \in Paths : tree'[<<"en", path[2]>>].exists}]_vars

\* A run ended normally although index.html was missing, and about.html was
\* generated in both languages
C11_Witness ==
    /\ gen.pc = "done"
    /\ ~HasTemplate("index")
    /\ {<<"en", "about">>, <<"es", "about">>} \subseteq written

\* C12: no step of a generator run changes the content of a page template
\* {page}.html.
C12_TemplatesUntouched ==
    [][\A p \in 1..Len(pages) :
          tree'[<<"en", pages[p]>>] = tree[<<"en", pages[p]>>]]_vars

\* The output file a step writes
WrittenBy(path) == path \in written' /\ path \notin written

\* C13: with the Store and the metadata unchanged, an output file that an
\* earlier run generated is written again with the same content.
C13_RegenerationIdempotent ==
    [][\A path \in Paths :
          (WrittenBy(path) /\ path \in runs.generated)
              => tree'[path] = tree[path]]_vars

\* The positions of the viewport meta tags and of the rel="alternate" links
ViewportsOf(doc) == {k \in 1..Len(doc) : IsViewport(doc[k])}
AlternateLinksOf(doc) ==
    {k \in 1..Len(doc) :
        /\ IsOpenTag(doc[k], "link")
        /\ \E i \in 1..Len(doc[k].attrs) :
              doc[k].attrs[i] = Attr("rel", <<"alternate">>)}

\* From position v + 1 on: whitespace, a comment, and the three links, each
\* after whitespace only
BlockAfter(doc, v, page_name) ==
    /\ v + 8 <= Len(doc)
    /\ \A i \in {v + 1, v + 3, v + 5, v + 7} :
          doc[i].kind = "data" /\ AllWhitespace(doc[i].data)
    /\ doc[v + 2].kind = "comment"
    /\ doc[v + 4] = AlternateLink("en", <<page_name, ".html">>)
    /\ doc[v + 6] = AlternateLink("es", <<"es/", page_name, ".html">>)
    /\ doc[v + 8] = AlternateLink("x-default", <<page_name, ".html">>)

\* C14: after any number of runs, a generated page whose template has a
\* viewport meta tag holds exactly three rel="alternate" links: en to
\* {page}.html, es to es/{page}.html and x-default to {page}.html, right
\* after the viewport meta tag.
C14_ThreeAlternateLinks ==
    \A path \in runs.generated :
        ViewportsOf(tree[<<"en", path[2]>>].doc) # {} =>
            LET doc == tree[path].doc
            IN /\ Cardinality(AlternateLinksOf(doc)) = 3
               /\ \E v \in ViewportsOf(doc) : BlockAfter(doc, v, path[2])

\* The second run has ended; it generated es/index.html again, from a
\* template that held the block of the first run
C14_Witness ==
    /\ runs.count = 2 /\ gen.pc = "done"
    /\ <<"es", "index">> \in written
    /\ ViewportsOf(tree[<<"en", "index">>].doc) # {}
    /\ Cardinality(AlternateLinksOf(tree[<<"es", "index">>].doc)) = 3

\* A relative reference to a stylesheet, a script, a media or a data file
IsAssetReference(value) ==
    /\ value # << >>
    /\ Head(value) \in {"style.css", "css/", "js/", "app.js", "media/", "data/"}

\* C15: for a non-default language update_asset_paths puts '../' before every
\* relative stylesheet, script, media and data reference of the template and
\* leaves every other attribute as it is; for the default language it
\* returns the document unchanged.
C15_AssetPathsPrefixed ==
    \A p \in 1..Len(pages) : HasTemplate(pages[p]) =>
        LET html == tree[<<"en", pages[p]>>].doc
            out == update_asset_paths(html, FALSE)
        IN /\ update_asset_paths(html, TRUE) = html
           /\ Len(out) = Len(html)
           /\ \A k \in 1..Len(html) : \A i \in 1..Len(html[k].attrs) :
                 out[k].attrs[i].value =
                     IF IsAssetReference(html[k].attrs[i].value)
                     THEN <<"../">> \o html[k].attrs[i].value
                     ELSE html[k].attrs[i].value

\* The positions of the text nodes of doc that hold text, padded or not
TextNodesOf(doc, text) ==
    {k \in 1..Len(doc) : doc[k].kind = "data" /\ MatchesPadded(doc[k].data, text)}

\* The step writes es/{page}.html for the page p
WritesSpanish(p) == WrittenBy(<<"es", pages[p]>>)

\* C16: a row whose target text is empty or equal to its source text makes no
\* substitution: the generated Spanish page has the row's source text
\* wherever the template has it.
C16_NoSubstitutionWithoutTarget ==
    [][\A p \in 1..Len(pages) : WritesSpanish(p) =>
          \A i \in 1..Len(store.rows) :
              LET row == store.rows[i]
              IN (row.es = EmptyText \/ row.es = row.en) =>
                    Cardinality(TextNodesOf(tree'[<<"es", pages[p]>>].doc, row.en))
                        >= Cardinality(TextNodesOf(tree[<<"en", pages[p]>>].doc, row.en))
      ]_vars

\* doc has an element with this id whose text is exactly text
HasElement(doc, id, text) ==
    \E k \in 1..(Len(doc) - 2) :
        /\ doc[k].kind = "start" /\ doc[k].hasId /\ doc[k].id = id
        /\ doc[k + 1] = Data(text)
        /\ IsTag(doc[k + 2])

\* C17: for a row (X, S, T) with T non-empty and different from S, when the
\* template has an element with id X and text exactly S, the generated
\* Spanish page has that element with text T.
C17_ElementTranslated ==
    [][\A p \in 1..Len(pages) : WritesSpanish(p) =>
          \A i \in 1..Len(store.rows) :
              LET row == store.rows[i]
              IN (/\ row.es # EmptyText /\ row.es # row.en
                  /\ HasElement(tree[<<"en", pages[p]>>].doc, row.id, row.en))
                    => HasElement(tree'[<<"es", pages[p]>>].doc, row.id, row.es)
      ]_vars

\* The value of the lang attribute of <html>, the text of <title> and the
\* content of the meta description are these
HasMetadata(doc, lang, title, description) ==
    /\ \A k \in 1..Len(doc) :
          IsOpenTag(doc[k], "html") => doc[k].attrs = <<Attr("lang", <<lang>>)>>
    /\ \A k \in 1..(Len(doc) - 1) :
          (doc[k].kind = "start" /\ doc[k].tag = "title")
              => doc[k + 1] = Data(title)
    /\ \A k \in 1..Len(doc) :
          (/\ IsOpenTag(doc[k], "meta") /\ doc[k].attrs # << >>
           /\ doc[k].attrs[1] = Attr("name", <<"description">>))
              => doc[k].attrs[2] = Attr("content", description)

\* C18: the page generated for page P in language L has lang="L" on <html>,
\* and the title and the meta description of L's metadata table for P.
C18_MetadataOfLanguage ==
    [][\A path \in Paths : WrittenBy(path) =>
          HasMetadata(tree'[path].doc, path[1],
                      TitleOf(meta[path[1]], path[1], path[2]),
                      DescriptionOf(meta[path[1]], path[1], path[2]))]_vars


(***************************************************************************)
(* Properties of translate_content                                         *)
(***************************************************************************)

\* The Spanish metadata table is there with every key
SpanishMetaComplete ==
    meta["es"].exists /\ ~translate_html_attributes_raises(meta["es"])

\* The document translate_content receives for es/{page_name}.html
ContentInput(page_name) ==
    update_component_lang_attributes(
        update_asset_paths(
            add_hreflang_tags(
                translate_html_attributes(tree[<<"en", page_name>>].doc, "es",
                                          meta["es"], page_name),
                page_name),
            FALSE),
        "es")

\* The rows of the Store as the generator loads them
LoadedRows == load_translations_csv(store).translations

RECURSIVE TranslatedUpTo(_, _, _)
\* The document after the first n rows of the loop
TranslatedUpTo(html, csv_translations, n) ==
    IF n = 0 THEN html
    ELSE LET before == TranslatedUpTo(html, csv_translations, n - 1)
             element_id == csv_translations.es.keys[n]
         IN TranslateRow(before, element_id,
                         DictGet(csv_translations.en, element_id),
                         csv_translations.es.vals[n])

\* The positions of the text nodes that directly follow an element with this
\* id and hold this text
AnchoredText(html, element_id, en_text) ==
    {k \in 2..(Len(html) - 1) :
        /\ html[k - 1].kind \in {"start", "startend"}
        /\ html[k - 1].hasId /\ html[k - 1].id = element_id
        /\ html[k].kind = "data" /\ MatchesPadded(html[k].data, en_text)
        /\ IsTag(html[k + 1])}

\* The row is one translate_content substitutes
Substituted(en_text, target_text) == Truthy(en_text) /\ en_text # target_text

TitleIs(doc, text) ==
    \E k \in 1..(Len(doc) - 1) :
        doc[k].kind = "start" /\ doc[k].tag = "title" /\ doc[k + 1] = Data(text)

EarlierSteps(doc) ==
    [tags |-> SelectSeq(doc, IsTag),
     title |-> {doc[k + 1] : k \in {n \in 1..(Len(doc) - 1) :
                                      doc[n].kind = "start" /\ doc[n].tag = "title"}}]

\* C22: translate_content never changes what the earlier steps wrote: the
\* lang attribute of the root, the <title> and the meta description, the
\* hreflang links, the prefixed asset paths and the lang attributes of the
\* components of a written Spanish page are those of the document
\* translate_content received.
C22_EarlierStepsPreserved ==
    [][\A p \in 1..Len(pages) : WritesSpanish(p) =>
          EarlierSteps(tree'[<<"es", pages[p]>>].doc)
              = EarlierSteps(ContentInput(pages[p]))]_vars


(***************************************************************************)
(* More properties of the reconciler                                       *)
(***************************************************************************)

\* The first page of the scan order on which the identifier is met, in
\* either language version
FirstPageOf(id) ==
    LET met == {p \in 1..Len(pages) :
                   OccursIn(id, <<"en", pages[p]>>) \/ OccursIn(id, <<"es", pages[p]>>)}
    IN pages[CHOOSE p \in met : \A q \in met : p <= q]

C23_WitnessScanned ==
    /\ JustSynced
    /\ \E id \in PriorIds \cap StoreIds :
          /\ RowOf(prior.rows, id).page = ""
          /\ ~OccursIn(id, <<"en", "index">>) /\ ~OccursIn(id, <<"es", "index">>)
          /\ RowOf(store.rows, id).page = "about"


(***************************************************************************)
(* More properties of the extractor                                        *)
(***************************************************************************)

RECURSIVE TextBetween(_, _, _)
\* The text of the text nodes at the positions i..j of doc
TextBetween(doc, i, j) ==
    IF i > j THEN EmptyText
    ELSE (IF doc[i].kind = "data" THEN doc[i].data ELSE EmptyText)
         \o TextBetween(doc, i + 1, j)

\* The pairs <<i, j>> of open tags that declare the same identifier, the
\* second while the capture of the first is still open, both closed later in
\* this order: inner element, then outer element
Redeclarations(doc) ==
    {pair \in (1..Len(doc)) \X (1..Len(doc)) :
        LET i == pair[1]
            j == pair[2]
            k == FirstClose(doc, doc[j].tag, j)
        IN /\ i < j
           /\ doc[i].kind = "start" /\ doc[i].hasId
           /\ doc[j].kind = "start" /\ doc[j].hasId /\ doc[j].id = doc[i].id
           /\ \A n \in (i + 1)..(j - 1) :
                 ~doc[n].hasId /\ ~(doc[n].kind = "end" /\ doc[n].tag = doc[i].tag)
           /\ k # 0
           /\ \A n \in (j + 1)..Len(doc) : ~doc[n].hasId
           /\ FirstClose(doc, doc[i].tag, k) # 0}

\* C24: when an element declaring identifier X opens while a capture of X is
\* open, then after both elements have closed the text recorded for X is the
\* inner element's text (normalized): the outer element's earlier text is
\* discarded, its later text is not captured.
C24_InnerOverwritesOuter ==
    \A path \in Readable :
        LET doc == tree[path].doc
        IN \A pair \in Redeclarations(doc) :
              DictGet(Extracted(path), doc[pair[1]].id) =
                  StrContent(NormalizeContent(
                      TextBetween(doc, pair[2] + 1,
                                  FirstClose(doc, doc[pair[2]].tag, pair[2]) - 1)))

\* <div id="nav-logo">Home<p id="nav-logo">Menu</p>Hola</div> was synced: the
\* row nav-logo has the text Menu
C24_Witness ==
    /\ JustSynced
    /\ tree[<<"en", "index">>].doc =
          <<StartTag("div", NavKebab), Data(Home), StartTag("p", NavKebab),
            Data(Menu), EndTag("p"), Data(Hola), EndTag("div")>>
    /\ Len(store.rows) = 1
    /\ store.rows[1].id = NavKebab /\ store.rows[1].en = Menu


\* C25: a sync run that finds the Store file absent aborts and writes no
\* Store file, whereas a missing page file only leaves that page out of the
\* scan: a run that finds the Store goes on to write it.
C25_MissingStoreAborts ==
    [][Sync =>
          /\ ~store.exists => (~store'.exists /\ syncStatus' = "failed")
          /\ (store.exists /\ ~scan_html_files(tree).failed)
                => (store'.exists /\ syncStatus' = "written")]_vars


(***************************************************************************)
(* Properties of the pipeline                                              *)
(***************************************************************************)

\* The identifiers and source texts of candidate rows
SourceTexts(rows) == [i \in 1..Len(rows) |-> <<rows[i].id, rows[i].en>>]

\* The Store is the one the last sync run wrote
StoreAsSynced ==
    /\ syncStatus = "written"
    /\ store = StoreOf(write_csv(WithStatus(updated_rows, "active")))

\* A generator run that loaded this Store has ended normally
GeneratedFromStore == gen.pc = "done" /\ gen.csv_translations = LoadedRows

\* The templates give a sync run the source texts they gave the last one
TemplatesUnchanged ==
    LET scanned == scan_html_files(tree)
    IN /\ ~scanned.failed
       /\ SourceTexts(create_updated_csv(scanned.page_ids, scanned.tag_info,
                                         load_existing_csv(store)))
             = SourceTexts(updated_rows)

\* C26: with unchanged templates, a sync run after a sync run and a generator
\* run writes the Store the first sync run wrote; a row whose target text was
\* empty is not filled in with text of a generated Spanish page.
C26_PipelineFixpoint ==
    [][(Sync /\ StoreAsSynced /\ GeneratedFromStore /\ TemplatesUnchanged)
          => /\ store' = store
             /\ \A i \in 1..Len(store.rows) : \A j \in 1..Len(store'.rows) :
                   (store.rows[i].id = store'.rows[j].id
                    /\ store.rows[i].es = EmptyText)
                       => store'.rows[j].es = EmptyText]_vars

\* C27: generating the default-language page makes no content substitution
\* (translate_content returns the document as it got it), the text of every
\* identified element of a default-language page is the same after a
\* generator step as before it, and so are the source texts a sync run finds.
C27_DefaultLanguageTextsKept ==
    [][\A p \in 1..Len(pages) : WrittenBy(<<"en", pages[p]>>) =>
          /\ translate_content(tree[<<"en", pages[p]>>].doc, "en",
                               gen.csv_translations)
                = tree[<<"en", pages[p]>>].doc
          /\ Feed(tree'[<<"en", pages[p]>>].doc).elements
                = Feed(tree[<<"en", pages[p]>>].doc).elements]_vars


\* C28: the extractor fails on no sequence of open-tag, close-tag,
\* self-closing-tag and text events: after every event, when a capture is
\* active the entry of the current identifier is an open list of fragments,
\* also after a self-closing element with an id was recorded during it.
C28_ExtractorNeverFails ==
    \A path \in Paths : tree[path].exists =>
        \A n \in 0..Len(tree[path].doc) :
            LET self == Feed(SubSeq(tree[path].doc, 1, n))
            IN /\ ~self.failed
               /\ (self.capture_content /\ self.current_id # None)
                     => DictGet(self.elements, self.current_id[1]).isList


Reversed(seq) == [i \in 1..Len(seq) |-> seq[Len(seq) + 1 - i]]

\* The loaded rows in the opposite order
ReversedRows(csv_translations) ==
    [en |-> [keys |-> Reversed(csv_translations.en.keys),
             vals |-> Reversed(csv_translations.en.vals)],
     es |-> [keys |-> Reversed(csv_translations.es.keys),
             vals |-> Reversed(csv_translations.es.vals)]]

\* The rows of the loop that change the node at position k of the document
\* (no row removes a node, so positions stay)
RewritingRows(html, csv_translations, k) ==
    {n \in 1..Len(csv_translations.es.keys) :
        TranslatedUpTo(html, csv_translations, n)[k]
            # TranslatedUpTo(html, csv_translations, n - 1)[k]}

\* C30: in translate_content each piece of text is translated at most once,
\* text a row inserted is not rewritten by a later row, and the generated
\* Spanish page is the same for the rows of the Store in the opposite order.
C30_TranslatedOnce ==
    [][\A p \in 1..Len(pages) : WritesSpanish(p) =>
          LET html == ContentInput(pages[p])
              csv_translations == gen.csv_translations
          IN /\ (\A n \in 1..Len(csv_translations.es.keys) :
                    Len(TranslatedUpTo(html, csv_translations, n)) = Len(html))
                  => \A k \in 1..Len(html) :
                        Cardinality(RewritingRows(html, csv_translations, k)) <= 1
             /\ tree'[<<"es", pages[p]>>].doc
                   = translate_content(html, "es", ReversedRows(csv_translations))
      ]_vars

=============================================================================
